---------------------------- MODULE Spec2Model ----------------------------
(***************************************************************************)
(* Model of src/zipfEngine.cpp: the ZipfAccelerator class (zipf.h part of  *)
(* the file, lines 572-871) and the host conversation loop that drives it  *)
(* (main, lines 221-461).                                                  *)
(*                                                                         *)
(* Representation.                                                         *)
(*  - float values are fixed-point integers in units of 1/Scale; the       *)
(*    repetition penalty, which spans the whole range of a float, is a     *)
(*    decimal mantissa and exponent.                                       *)
(*  - token texts, keywords and user inputs are sequences of one-character *)
(*    strings, so that find / find_first_of / tolower are computed.        *)
(*  - role, mood, mode and relationship labels are only compared for       *)
(*    equality in the code and are plain strings.                          *)
(*  - std::sort is not stable: its result is any arrangement in which the  *)
(*    comparator's order (score descending) is respected.                  *)
(***************************************************************************)
EXTENDS Integers, Sequences, FiniteSets

VARIABLES
    vocab,                  \* the llama_vocab of the loaded model: [n, score]
    vocab_size,             \* ZipfAccelerator::vocab_size
    initialized,            \* ZipfAccelerator::initialized
    token_scores,           \* initialize's token_scores vector after std::sort
    base_logit_bias,        \* ZipfAccelerator::base_logit_bias
    common_tokens,          \* ZipfAccelerator::common_tokens
    rare_tokens,            \* ZipfAccelerator::rare_tokens
    punctuation,            \* ZipfAccelerator::punctuation
    dialogue_tokens,        \* ZipfAccelerator::dialogue_tokens
    token_flags,            \* ZipfAccelerator::token_flags (set of flag bits per token)
    current_role_tokens,    \* ZipfAccelerator::current_role_tokens
    current_mood_tokens,    \* ZipfAccelerator::current_mood_tokens
    turn_count,             \* conv_state.turn_count
    recent_lengths,         \* conv_state.recent_lengths
    turn_frequencies,       \* conv_state.turn_frequencies
    complexity_factor,      \* params.complexity_factor
    engagement_modifier,    \* params.engagement_modifier
    pattern_strength,       \* params.pattern_strength
    logits,                 \* the logit buffer of the context (llama_get_logits)
    n_accel,                \* accelerate_logits calls applied to that buffer since it was last filled
    call,                   \* the latest ZipfAccelerator call: its name, arguments, result
    pc,                     \* position of main
    npc_idx,                \* main: npc_idx
    relationship,           \* main: state.relationship
    recent_action,          \* main: state.recent_action
    mode_name,              \* main: mode_name of the turn
    i,                      \* main: index of the generation loop
    min_tokens,             \* main: min_tokens of the turn
    max_tokens,             \* main: max_tokens of the turn
    candidates,             \* main: candidates[token].logit
    token_counts,           \* main: token_counts
    assistant_tokens,       \* main: assistant_tokens.size()
    found_closing_quote,    \* main: found_closing_quote
    found_forbidden_speaker \* main: found_forbidden_speaker

staticVars == <<vocab_size, initialized, token_scores, base_logit_bias, common_tokens,
                rare_tokens, punctuation, dialogue_tokens, token_flags>>
contextVars == <<current_role_tokens, current_mood_tokens>>
convVars == <<turn_count, recent_lengths, turn_frequencies>>
paramVars == <<complexity_factor, engagement_modifier, pattern_strength>>
gameVars == <<npc_idx, relationship, recent_action>>
loopVars == <<mode_name, i, min_tokens, max_tokens, candidates, token_counts,
              assistant_tokens, found_closing_quote, found_forbidden_speaker>>
hostVars == <<pc, gameVars, loopVars>>
vars == <<vocab, staticVars, contextVars, convVars, paramVars, logits, n_accel, call,
          hostVars>>

(***************************************************************************)
(* Bounds of the model.                                                    *)
(***************************************************************************)
MaxVocab == 10        \* largest vocabulary size explored
MaxUpdates == 8       \* update_context calls explored under SpecEngine
MaxAccel == 2         \* accelerate_logits calls on one buffer under SpecEngine
MaxCount == 20        \* every occurrence count up to it is passed to get_repetition_penalty under SpecQuery
MaxQueryTurns == 1    \* update_context calls explored under SpecQuery
MaxTurns == 2         \* conversation turns explored under Spec
MaxEarlyEos == 1      \* end-of-sequence samples before min_tokens, per turn, under Spec
MaxQuote == 1         \* samples of the quotation-mark token before min_tokens, per turn, under Spec

(***************************************************************************)
(* Fixed point.                                                            *)
(***************************************************************************)
Scale == 10 * 100

Mul(a, b) == (a * b) \div Scale

Min(a, b) == IF a < b THEN a ELSE b

Max(a, b) == IF a > b THEN a ELSE b

clamp(v, lo, hi) == IF v < lo THEN lo ELSE IF hi < v THEN hi ELSE v

(***************************************************************************)
(* Strings as character sequences.                                         *)
(***************************************************************************)
UpperChars == <<"A","B","C","D","E","F","G","H","I","J","K","L","M",
                "N","O","P","Q","R","S","T","U","V","W","X","Y","Z">>

LowerChars == <<"a","b","c","d","e","f","g","h","i","j","k","l","m",
                "n","o","p","q","r","s","t","u","v","w","x","y","z">>

tolower(c) ==
    IF \E k \in 1..26 : UpperChars[k] = c
    THEN LowerChars[CHOOSE k \in 1..26 : UpperChars[k] = c]
    ELSE c

to_lower(s) == [k \in 1..Len(s) |-> tolower(s[k])]

\* s.find(keyword) != npos
Contains(s, keyword) ==
    \E k \in 1..(Len(s) - Len(keyword) + 1) :
        SubSeq(s, k, k + Len(keyword) - 1) = keyword

\* s.find_first_of(chars) != npos
ContainsAnyOf(s, chars) == \E k \in 1..Len(s) : s[k] \in chars

(***************************************************************************)
(* The vocabulary supplied by the inference engine.                        *)
(***************************************************************************)
TokenTexts == <<
    <<"t","h","e">>,
    <<"\"">>,
    <<".">>,
    <<"D","u","t","y">>,
    <<"w","a","t","c","h">>,
    <<"g","l","a","d">>,
    <<"b","a","h","!">>,
    <<"S","i","r">>,
    <<"a","l","e">>,
    <<"'","s">> >>

\* vocab->token_get_text(id)
token_get_text(id) == TokenTexts[(id % Len(TokenTexts)) + 1]

ScorePatterns == {"desc", "asc", "ties"}

\* vocab->token_get_score(id) of the vocabulary of n tokens with pattern p
PatternScore(p, n, id) ==
    IF p = "desc" THEN n - id
    ELSE IF p = "asc" THEN id
    ELSE IF id <= 1 THEN n
    ELSE IF id >= n - 2 THEN 0
    ELSE n - id

VocabSizes == {0} \cup (10..MaxVocab)

Vocabularies ==
    {[n |-> n, score |-> [id \in 0..(n - 1) |-> PatternScore(p, n, id)]] :
        n \in VocabSizes, p \in ScorePatterns}

Tokens == 0..(vocab.n - 1)

(***************************************************************************)
(* ZipfAccelerator::initialize                                             *)
(***************************************************************************)
\* the comparator of std::sort: a.second > b.second
SortComp(a, b) == a.second > b.second

\* every result std::sort may leave for the pairs of the tokens in rest
RECURSIVE SortOutcomes(_, _)
SortOutcomes(v, rest) ==
    IF rest = {} THEN {<<>>}
    ELSE LET pair(t) == [first |-> t, second |-> v.score[t]]
             heads == {t \in rest : \A u \in rest : ~SortComp(pair(u), pair(t))}
         IN  UNION {{<<pair(t)>> \o s : s \in SortOutcomes(v, rest \ {t})} : t \in heads}

common_cutoff(n) == Min(500, n \div 10)

rare_cutoff(n) == (n * 4) \div 5

\* -300 * ln(r), r = 1..20: log(1 / pow(rank + 1, 0.3)) in units of 1/Scale
LogTable == <<0, -208, -330, -416, -483, -538, -584, -624, -659, -691,
              -719, -745, -769, -792, -812, -832, -850, -867, -883, -899>>

zipf_bias(rank) == LogTable[rank + 1]

IsCommonRank(rank, n) == rank < common_cutoff(n)

IsRareRank(rank, n) == rank > rare_cutoff(n)

IsPunctText(text) == ContainsAnyOf(text, {".", "!", "?", "\"", "'"})

IsDialogueText(text) == IsPunctText(text) /\ Contains(text, <<"\"">>)

RankIn(sorted, token) == (CHOOSE r \in 1..Len(sorted) : sorted[r].first = token) - 1

initialize(sorted) ==
    LET n == vocab.n
        ranked(P(_, _)) == {sorted[r + 1].first : r \in {q \in 0..(n - 1) : P(q, n)}}
        common == ranked(IsCommonRank)
        rare == ranked(IsRareRank)
        punct == {t \in 0..(n - 1) : IsPunctText(token_get_text(t))}
        dialogue == {t \in 0..(n - 1) : IsDialogueText(token_get_text(t))}
    IN  /\ vocab_size' = n
        /\ token_scores' = sorted
        /\ common_tokens' = common
        /\ rare_tokens' = rare
        /\ punctuation' = punct
        /\ dialogue_tokens' = dialogue
        /\ base_logit_bias' = [t \in 0..(n - 1) |-> zipf_bias(RankIn(sorted, t))]
        /\ token_flags' =
             [t \in 0..(n - 1) |->
                (IF t \in DOMAIN token_flags THEN token_flags[t] ELSE {})
                \cup (IF t \in common THEN {"IS_COMMON"} ELSE {})
                \cup (IF t \in rare THEN {"IS_RARE"} ELSE {})
                \cup (IF t \in punct THEN {"IS_PUNCT"} ELSE {})
                \cup (IF t \in dialogue THEN {"IS_DIALOGUE"} ELSE {})]
        /\ initialized' = TRUE

(***************************************************************************)
(* Keyword tables.                                                         *)
(***************************************************************************)
\* get_role_keywords with the guard's list filed under the name of the guard NPC
get_role_keywords_by_name(role) ==
    IF role = "Krackle" \/ role = "guard" THEN <<
        <<"g","u","a","r","d">>, <<"w","a","t","c","h">>, <<"p","r","o","t","e","c","t">>,
        <<"d","u","t","y">>, <<"p","a","t","r","o","l">>, <<"s","e","c","u","r","e">>,
        <<"d","e","f","e","n","d">> >>
    ELSE <<>>

get_role_keywords(role) ==
    IF role = "guard" THEN <<
        <<"g","u","a","r","d">>, <<"w","a","t","c","h">>, <<"p","r","o","t","e","c","t">>,
        <<"d","u","t","y">>, <<"p","a","t","r","o","l">>, <<"s","e","c","u","r","e">>,
        <<"d","e","f","e","n","d">> >>
    ELSE IF role = "tavernkeeper" THEN <<
        <<"t","a","v","e","r","n">>, <<"a","l","e">>, <<"d","r","i","n","k">>,
        <<"b","r","e","w">>, <<"w","e","l","c","o","m","e">>, <<"i","n","n">>,
        <<"g","u","e","s","t">>, <<"r","o","o","m">> >>
    ELSE IF role = "scribe" THEN <<
        <<"s","c","r","o","l","l">>, <<"w","r","i","t","e">>, <<"r","e","c","o","r","d">>,
        <<"i","n","k">>, <<"q","u","i","l","l">>, <<"d","o","c","u","m","e","n","t">>,
        <<"a","r","c","h","i","v","e">>, <<"k","n","o","w","l","e","d","g","e">> >>
    ELSE IF role = "merchant" THEN <<
        <<"g","o","l","d">>, <<"c","o","i","n">>, <<"t","r","a","d","e">>,
        <<"s","e","l","l">>, <<"b","u","y">>, <<"p","r","i","c","e">>,
        <<"g","o","o","d","s">>, <<"w","a","r","e","s">> >>
    ELSE IF role = "knight" THEN <<
        <<"h","o","n","o","r">>, <<"s","w","o","r","d">>, <<"s","h","i","e","l","d">>,
        <<"o","a","t","h">>, <<"n","o","b","l","e">>, <<"q","u","e","s","t">>,
        <<"c","h","i","v","a","l","r","y">> >>
    ELSE IF role = "wizard" THEN <<
        <<"m","a","g","i","c">>, <<"s","p","e","l","l">>, <<"a","r","c","a","n","e">>,
        <<"t","o","m","e">>, <<"s","t","a","f","f">>, <<"e","n","c","h","a","n","t">>,
        <<"r","i","t","u","a","l">> >>
    ELSE <<>>

get_mood_keywords(mood) ==
    IF mood = "friendly" THEN <<
        <<"p","l","e","a","s","e","d">>, <<"w","e","l","c","o","m","e">>, <<"g","l","a","d">>,
        <<"h","a","p","p","y">>, <<"k","i","n","d">>, <<"w","a","r","m">>,
        <<"c","h","e","e","r","f","u","l">> >>
    ELSE IF mood = "rude" THEN <<
        <<"a","n","n","o","y","e","d">>, <<"i","r","r","i","t","a","t","e","d">>,
        <<"b","a","h">>, <<"h","m","p","h">>, <<"w","h","a","t","e","v","e","r">>,
        <<"f","o","o","l">>, <<"w","a","s","t","e">> >>
    ELSE IF mood = "suspicious" THEN <<
        <<"w","a","r","y">>, <<"c","a","r","e","f","u","l">>,
        <<"s","u","s","p","i","c","i","o","u","s">>, <<"d","o","u","b","t">>,
        <<"t","r","u","s","t">>, <<"w","a","t","c","h">>, <<"u","n","s","u","r","e">> >>
    ELSE IF mood = "deferential" THEN <<
        <<"s","i","r">>, <<"m","a","d","a","m">>, <<"h","o","n","o","r">>,
        <<"r","e","s","p","e","c","t">>, <<"p","l","e","a","s","e">>,
        <<"a","p","o","l","o","g","i","z","e">>, <<"f","o","r","g","i","v","e">> >>
    ELSE IF mood = "stoic" THEN <<
        <<"i","n","d","e","e","d">>, <<"u","n","d","e","r","s","t","o","o","d">>,
        <<"v","e","r","y"," ","w","e","l","l">>, <<"q","u","i","t","e">>,
        <<"c","e","r","t","a","i","n","l","y">> >>
    ELSE <<>>

(***************************************************************************)
(* ZipfAccelerator::update_context and update_complexity_factor            *)
(***************************************************************************)
\* update_context without the clear(): the matches are merged into the previous set
match_tokens_merged(previous, keywords) ==
    previous \cup
    {id \in 0..(vocab_size - 1) :
        LET lower_text == to_lower(token_get_text(id))
        IN  \E k \in 1..Len(keywords) : Contains(lower_text, keywords[k])}

\* the token set after clear() and the loop over id < vocab_size: a token is
\* inserted when its lower-cased text contains one of the keywords
match_tokens(previous, keywords) ==
    {id \in 0..(vocab_size - 1) :
        LET lower_text == to_lower(token_get_text(id))
        IN  \E k \in 1..Len(keywords) : Contains(lower_text, keywords[k])}

RECURSIVE accumulate(_)
accumulate(lens) == IF lens = <<>> THEN 0 ELSE Head(lens) + accumulate(Tail(lens))

\* update_complexity_factor without the final std::clamp
update_complexity_factor_unclamped(factor, lens) ==
    LET avg_length == IF lens = <<>> THEN 0
                      ELSE (accumulate(lens) * Scale) \div Len(lens)
    IN  IF avg_length < 20 * Scale THEN Mul(factor, 900)
        ELSE IF avg_length > 50 * Scale THEN Mul(factor, 1100)
        ELSE factor

update_complexity_factor(factor, lens) ==
    LET avg_length == IF lens = <<>> THEN 0
                      ELSE (accumulate(lens) * Scale) \div Len(lens)
        adjusted == IF avg_length < 20 * Scale THEN Mul(factor, 900)
                    ELSE IF avg_length > 50 * Scale THEN Mul(factor, 1100)
                    ELSE factor
    IN  clamp(adjusted, 500, 2000)

\* recent_lengths after the size check of update_context: nothing is appended
trim_recent_lengths(lens) == IF Len(lens) >= 5 THEN Tail(lens) ELSE lens

update_context(role, mood) ==
    /\ current_role_tokens' = match_tokens(current_role_tokens, get_role_keywords(role))
    /\ current_mood_tokens' = match_tokens(current_mood_tokens, get_mood_keywords(mood))
    /\ turn_count' = turn_count + 1
    /\ recent_lengths' = trim_recent_lengths(recent_lengths)
    /\ complexity_factor' =
         update_complexity_factor(complexity_factor, trim_recent_lengths(recent_lengths))
    /\ UNCHANGED <<turn_frequencies, engagement_modifier, pattern_strength>>

(***************************************************************************)
(* ZipfAccelerator::accelerate_logits and its helpers                      *)
(***************************************************************************)
MAX_RESPONSE_LENGTH == 200

\* suppress_dialogue_enders assigning the suppressed score instead of subtracting
suppress_dialogue_enders_assigning(buf) ==
    [t \in DOMAIN buf |->
        IF t \in dialogue_tokens /\ t \in punctuation THEN 0 - 2 * Scale ELSE buf[t]]

suppress_dialogue_enders(buf) ==
    [t \in DOMAIN buf |->
        IF t \in dialogue_tokens /\ t \in punctuation THEN buf[t] - 2 * Scale ELSE buf[t]]

\* accelerate_logits taking both dialogue-flow branches on the boosting side
boost_dialogue_enders_after_suppress(buf, boost) ==
    [t \in DOMAIN buf |->
        IF t \in dialogue_tokens
        THEN buf[t] + boost - (IF t \in punctuation THEN 2 * Scale ELSE 0)
        ELSE buf[t]]

boost_dialogue_enders(buf, boost) ==
    [t \in DOMAIN buf |-> IF t \in dialogue_tokens THEN buf[t] + boost ELSE buf[t]]

apply_conversation_patterns(buf) ==
    [t \in DOMAIN buf |->
        IF t \in DOMAIN turn_frequencies /\ turn_frequencies[t] > 100
        THEN buf[t] + Mul(200, pattern_strength)
        ELSE buf[t]]

\* 1.0f - (float)min_tokens_remaining / MAX_RESPONSE_LENGTH
completion_ratio(min_tokens_remaining) ==
    Scale - (min_tokens_remaining * Scale) \div MAX_RESPONSE_LENGTH

role_boost(context_length) ==
    LET boost == Mul(500, engagement_modifier)
    IN  IF context_length < 10 THEN Mul(boost, 1500) ELSE boost

mood_boost(context_length) ==
    LET boost == Mul(300, engagement_modifier)
    IN  IF context_length < 10 THEN Mul(boost, 1500) ELSE boost

dialogue_boost == Mul(400, pattern_strength)

\* the buffer accelerate_logits leaves
accelerate_logits(buf, context_length, min_tokens_remaining) ==
    IF ~initialized THEN buf
    ELSE
    LET based == [t \in DOMAIN buf |-> buf[t] + Mul(base_logit_bias[t], complexity_factor)]
        boosted == [t \in DOMAIN buf |->
                      based[t]
                      + (IF t \in current_role_tokens THEN role_boost(context_length) ELSE 0)
                      + (IF t \in current_mood_tokens THEN mood_boost(context_length) ELSE 0)]
        ratio == completion_ratio(min_tokens_remaining)
        flowed == IF ratio < 600 THEN suppress_dialogue_enders(boosted)
                  ELSE boost_dialogue_enders(boosted, Mul(dialogue_boost, ratio))
    IN  apply_conversation_patterns(flowed)

\* accelerate_logits compounding the complexity factor on every call
accelerate_frame_compounding ==
    /\ complexity_factor' = clamp(Mul(complexity_factor, 900), 500, 2000)
    /\ UNCHANGED <<staticVars, contextVars, convVars, engagement_modifier, pattern_strength>>

\* what accelerate_logits leaves of the engine's own state
accelerate_frame == UNCHANGED <<staticVars, contextVars, convVars, paramVars>>

(***************************************************************************)
(* ZipfAccelerator::is_contextually_appropriate, get_repetition_penalty    *)
(***************************************************************************)
\* is_contextually_appropriate approving role and mood tokens before the rare test
is_contextually_appropriate_context_first(token) ==
    IF token \in current_role_tokens \/ token \in current_mood_tokens THEN TRUE
    ELSE IF token \in rare_tokens THEN FALSE
    ELSE token \in common_tokens

is_contextually_appropriate(token) ==
    IF token \in rare_tokens THEN FALSE
    ELSE IF token \in current_role_tokens \/ token \in current_mood_tokens THEN TRUE
    ELSE token \in common_tokens

\* A float is kept as a decimal mantissa m in 10000..99999 (or 0) and an
\* exponent e: its value is m * 10^-(4 + e).  The repetition penalty falls to
\* 1e-12 within one response, below any fixed-point unit.
float_one == [m |-> 10000, e |-> 0]

float_zero == [m |-> 0, e |-> 0]

\* f * (k / 10000) for 9000 <= k <= 10000
float_scale(f, k) ==
    LET p == f.m * k
    IN  IF p >= 10000 * 10000 THEN [m |-> p \div 10000, e |-> f.e]
        ELSE [m |-> p \div 1000, e |-> f.e + 1]

\* the result of a float operation: a value below 2^-150 = 7.0065e-46, half the
\* smallest subnormal float, is 0
float_round(f) ==
    IF f.m = 0 \/ f.e > 46 \/ (f.e = 46 /\ f.m < 70065) THEN float_zero ELSE f

\* a < b
float_lt(a, b) ==
    IF a.m = 0 THEN b.m # 0
    ELSE IF b.m = 0 THEN FALSE
    ELSE a.e > b.e \/ (a.e = b.e /\ a.m < b.m)

\* the float in units of 1/Scale
to_fixed(f) ==
    IF f.m = 0 \/ f.e > 3 THEN 0
    ELSE f.m \div (IF f.e = 0 THEN 10 ELSE IF f.e = 1 THEN 100
                   ELSE IF f.e = 2 THEN 1000 ELSE 10000)

\* 10000 * 0.9^(j/10), j = 0..9
FracPowTable == <<10000, 9895, 9791, 9689, 9587, 9487, 9387, 9289, 9192, 9095>>

\* a * b, the mantissa of b taken in two parts to stay within 32 bits
float_mul(a, b) ==
    LET q == (a.m * (b.m \div 100)) \div 100 + (a.m * (b.m % 100)) \div 10000
    IN  IF a.m = 0 \/ b.m = 0 THEN float_zero
        ELSE IF q < 10 * 10000 THEN [m |-> q, e |-> a.e + b.e]
        ELSE [m |-> q \div 10, e |-> a.e + b.e - 1]

\* 0.9^n by repeated squaring
RECURSIVE IntPow09(_)
IntPow09(n) ==
    IF n = 0 THEN float_one
    ELSE LET half == IntPow09(n \div 2)
             square == float_mul(half, half)
         IN  IF n % 2 = 0 THEN square ELSE float_scale(square, 9000)

\* std::pow(0.9f, tenths / 10)
pow09(tenths) ==
    float_round(float_scale(IntPow09(tenths \div 10), FracPowTable[(tenths % 10) + 1]))

\* get_repetition_penalty with the two exponents exchanged
get_repetition_penalty_swapped(token, count) ==
    IF token \in common_tokens THEN pow09(count * 13) ELSE pow09(count * 7)

get_repetition_penalty(token, count) ==
    IF token \in common_tokens THEN pow09(count * 7) ELSE pow09(count * 13)

\* what the two const queries leave of the engine's state
query_frame == UNCHANGED <<staticVars, contextVars, convVars, paramVars>>

(***************************************************************************)
(* The engine driven through its public interface: SpecEngine.             *)
(* initialize runs once; every later call may come in any order.  A turn   *)
(* starts with update_context on a newly decoded logit buffer.             *)
(***************************************************************************)
\* the logits llama_decode leaves in the context
decoded_logits == [t \in Tokens |-> ((t % 3) - 1) * Scale]

NoTokens == {}

EmptyMap == [t \in NoTokens |-> 0]

EngineFresh ==
    /\ vocab_size = 0
    /\ initialized = FALSE
    /\ token_scores = <<>>
    /\ base_logit_bias = EmptyMap
    /\ common_tokens = {}
    /\ rare_tokens = {}
    /\ punctuation = {}
    /\ dialogue_tokens = {}
    /\ token_flags = EmptyMap
    /\ current_role_tokens = {}
    /\ current_mood_tokens = {}
    /\ turn_count = 0
    /\ recent_lengths = <<>>
    /\ turn_frequencies = EmptyMap
    /\ complexity_factor = Scale
    /\ engagement_modifier = Scale
    /\ pattern_strength = Scale
    /\ call = [op |-> "none"]

LoopIdle ==
    /\ mode_name = ""
    /\ i = 0
    /\ min_tokens = 0
    /\ max_tokens = 0
    /\ assistant_tokens = 0
    /\ found_closing_quote = FALSE
    /\ found_forbidden_speaker = FALSE

\* (role, mood) labels passed to update_context; "Guard" is not a key of the role table
EngineLabels == {<<"guard", "friendly">>, <<"unknown", "unknown">>,
                 <<"tavernkeeper", "suspicious">>, <<"Guard", "rude">>}

\* (context_length, min_tokens_remaining) pairs passed to accelerate_logits
AccelArgs == {<<0, 81>>, <<10, 80>>, <<0, 80>>}

EngineInit ==
    /\ vocab \in Vocabularies
    /\ EngineFresh
    /\ logits = decoded_logits
    /\ n_accel = 0
    /\ pc = "engine"
    /\ npc_idx = 0
    /\ relationship = ""
    /\ recent_action = <<>>
    /\ LoopIdle
    /\ candidates = [t \in Tokens |-> 0]
    /\ token_counts = [t \in Tokens |-> 0]

EngineInitialize ==
    /\ ~initialized
    /\ \E sorted \in SortOutcomes(vocab, Tokens) : initialize(sorted)
    /\ call' = [op |-> "initialize"]
    /\ UNCHANGED <<vocab, contextVars, convVars, paramVars, logits, n_accel, hostVars>>

CallUpdateContext(limit) ==
    /\ initialized
    /\ turn_count < limit
    /\ \E labels \in EngineLabels :
          /\ update_context(labels[1], labels[2])
          /\ call' = [op |-> "update_context", role |-> labels[1], mood |-> labels[2]]
    /\ logits' = decoded_logits
    /\ n_accel' = 0
    /\ UNCHANGED <<vocab, staticVars, hostVars>>

EngineAccelerate ==
    /\ n_accel < MaxAccel
    /\ \E a \in AccelArgs :
          /\ logits' = accelerate_logits(logits, a[1], a[2])
          /\ call' = [op |-> "accelerate_logits", context_length |-> a[1],
                      min_tokens_remaining |-> a[2]]
    /\ n_accel' = n_accel + 1
    /\ accelerate_frame
    /\ UNCHANGED <<vocab, hostVars>>

\* the counts passed to get_repetition_penalty: the small ones, the largest the
\* host can reach (a response is capped at 200 tokens), and one in the hundreds
PenaltyCounts == (0..MaxCount) \cup {199, 200} \cup {800}

EnginePenalty ==
    /\ \E token \in Tokens, count \in PenaltyCounts :
          call' = [op |-> "get_repetition_penalty", token |-> token, count |-> count,
                   ret |-> get_repetition_penalty(token, count)]
    /\ query_frame
    /\ UNCHANGED <<vocab, logits, n_accel, hostVars>>

EngineAppropriate ==
    /\ \E token \in Tokens :
          call' = [op |-> "is_contextually_appropriate", token |-> token,
                   ret |-> is_contextually_appropriate(token)]
    /\ query_frame
    /\ UNCHANGED <<vocab, logits, n_accel, hostVars>>

EngineUpdateContext == CallUpdateContext(MaxUpdates)

EngineNext ==
    \/ EngineInitialize
    \/ EngineUpdateContext
    \/ EngineAccelerate

SpecEngine == EngineInit /\ [][EngineNext]_vars

(***************************************************************************)
(* The two const queries on a built engine: SpecQuery.                     *)
(***************************************************************************)
QueryUpdateContext == CallUpdateContext(MaxQueryTurns)

QueryNext ==
    \/ EngineInitialize
    \/ QueryUpdateContext
    \/ EnginePenalty
    \/ EngineAppropriate

SpecQuery == EngineInit /\ [][QueryNext]_vars

(***************************************************************************)
(* The host: personality modes, NPC profiles, mode selection.              *)
(***************************************************************************)
ALL_PERSONALITY_MODES == <<
    [mode_name |-> "friendly",    min_tokens |-> 15, max_tokens |-> 150],
    [mode_name |-> "rude",        min_tokens |-> 8,  max_tokens |-> 80],
    [mode_name |-> "suspicious",  min_tokens |-> 12, max_tokens |-> 120],
    [mode_name |-> "deferential", min_tokens |-> 20, max_tokens |-> 200],
    [mode_name |-> "stoic",       min_tokens |-> 10, max_tokens |-> 60] >>

get_mode_by_name(name) ==
    IF \E k \in 1..Len(ALL_PERSONALITY_MODES) : ALL_PERSONALITY_MODES[k].mode_name = name
    THEN ALL_PERSONALITY_MODES[
           CHOOSE k \in 1..Len(ALL_PERSONALITY_MODES) :
              /\ ALL_PERSONALITY_MODES[k].mode_name = name
              /\ \A j \in 1..(k - 1) : ALL_PERSONALITY_MODES[j].mode_name # name]
    ELSE ALL_PERSONALITY_MODES[1]

NPCS == <<
    [name |-> "Krackle", allowed_modes |-> <<"friendly", "rude", "suspicious">>],
    [name |-> "Mira",    allowed_modes |-> <<"friendly", "suspicious", "stoic">>],
    [name |-> "Feylan",  allowed_modes |-> <<"deferential", "friendly", "stoic">>] >>

Allowed(npc, mode) == \E k \in 1..Len(npc.allowed_modes) : npc.allowed_modes[k] = mode

\* pick_mode_for_npc answering a threat with "rude" whether or not the NPC allows it
pick_mode_for_npc_unchecked_threat(npc, rel, action, user_input) ==
    LET input_lc == to_lower(user_input \o <<" ">> \o action)
        has(word) == Contains(input_lc, word)
    IN  IF \/ has(<<"t","h","r","e","a","t","e","n">>)
           \/ has(<<"k","i","l","l">>)
           \/ has(<<"h","a","r","m">>)
           \/ has(<<"a","t","t","a","c","k">>)
        THEN "rude"
        ELSE IF rel = "friend" /\ Allowed(npc, "friendly") THEN "friendly"
        ELSE IF rel = "foe" /\ Allowed(npc, "rude") THEN "rude"
        ELSE IF rel = "foe" /\ Allowed(npc, "suspicious") THEN "suspicious"
        ELSE IF rel = "stranger" /\ Allowed(npc, "suspicious") THEN "suspicious"
        ELSE IF has(<<"t","h","a","n","k">>) /\ Allowed(npc, "friendly") THEN "friendly"
        ELSE IF /\ \/ has(<<"k","i","n","g">>)
                   \/ has(<<"q","u","e","e","n">>)
                   \/ has(<<"m","a","j","e","s","t","y">>)
                   \/ has(<<"l","o","r","d">>)
                /\ Allowed(npc, "deferential")
        THEN "deferential"
        ELSE npc.allowed_modes[1]

pick_mode_for_npc(npc, rel, action, user_input) ==
    LET input_lc == to_lower(user_input \o <<" ">> \o action)
        has(word) == Contains(input_lc, word)
    IN  IF /\ \/ has(<<"t","h","r","e","a","t","e","n">>)
              \/ has(<<"k","i","l","l">>)
              \/ has(<<"h","a","r","m">>)
              \/ has(<<"a","t","t","a","c","k">>)
           /\ Allowed(npc, "rude")
        THEN "rude"
        ELSE IF rel = "friend" /\ Allowed(npc, "friendly") THEN "friendly"
        ELSE IF rel = "foe" /\ Allowed(npc, "rude") THEN "rude"
        ELSE IF rel = "foe" /\ Allowed(npc, "suspicious") THEN "suspicious"
        ELSE IF rel = "stranger" /\ Allowed(npc, "suspicious") THEN "suspicious"
        ELSE IF has(<<"t","h","a","n","k">>) /\ Allowed(npc, "friendly") THEN "friendly"
        ELSE IF /\ \/ has(<<"k","i","n","g">>)
                   \/ has(<<"q","u","e","e","n">>)
                   \/ has(<<"m","a","j","e","s","t","y">>)
                   \/ has(<<"l","o","r","d">>)
                /\ Allowed(npc, "deferential")
        THEN "deferential"
        ELSE npc.allowed_modes[1]

DEFAULT_MAX_OUTPUT_TOKENS == 300

MIN_RESPONSE_TOKENS == 8

\* llama_vocab_eos(vocab) and LLAMA_TOKEN_NULL take the same branch of the loop
LLAMA_TOKEN_NULL == -1

(***************************************************************************)
(* Inputs of the host explored by Spec.                                    *)
(***************************************************************************)
UserInputs == {<<"h","i">>, <<"T","h","a","n","k","s">>, <<"I"," ","a","t","t","a","c","k">>,
               <<"m","y"," ","l","o","r","d">>}

RelationshipInputs == {"friend", ""}

RecentActions == {<<"g","r","e","e","t">>}

\* the vocabulary of the model file the host loads
HostVocabularies ==
    {v \in Vocabularies :
        /\ v.n = MaxVocab
        /\ \A id \in 0..(v.n - 1) : v.score[id] = PatternScore("desc", v.n, id)}

\* tokens the sampler chain returns in the runs explored
PlainToken == CHOOSE t \in 0..(MaxVocab - 1) : token_get_text(t) = <<"t","h","e">>

QuoteToken == CHOOSE t \in 0..(MaxVocab - 1) : token_get_text(t) = <<"\"">>

(***************************************************************************)
(* main                                                                    *)
(***************************************************************************)
Init ==
    /\ vocab \in HostVocabularies
    /\ EngineFresh
    /\ logits = [t \in Tokens |-> 0]
    /\ n_accel = 0
    /\ pc = "startup"
    /\ npc_idx \in 0..(Len(NPCS) - 1)
    /\ relationship \in {IF r = "" THEN "stranger" ELSE r : r \in RelationshipInputs}
    /\ recent_action \in RecentActions
    /\ LoopIdle
    /\ candidates = EmptyMap
    /\ token_counts = EmptyMap

\* lines 266-291: zipf.initialize(vocab), the candidates and token_counts vectors
HostStartup ==
    /\ pc = "startup"
    /\ \E sorted \in SortOutcomes(vocab, Tokens) : initialize(sorted)
    /\ call' = [op |-> "initialize"]
    /\ candidates' = [t \in Tokens |-> 0]
    /\ token_counts' = [t \in Tokens |-> 0]
    /\ pc' = "prompt"
    /\ UNCHANGED <<vocab, contextVars, convVars, paramVars, logits, n_accel, gameVars,
                   mode_name, i, min_tokens, max_tokens, assistant_tokens,
                   found_closing_quote, found_forbidden_speaker>>

\* line 305
HostExit ==
    /\ pc = "prompt"
    /\ pc' = "done"
    /\ UNCHANGED <<vocab, staticVars, contextVars, convVars, paramVars, logits, n_accel,
                   call, gameVars, loopVars>>

\* line 306
HostEmptyInput ==
    /\ pc = "prompt"
    /\ UNCHANGED vars

\* line 308: the modes pick_mode_for_npc returns for the inputs explored
TurnModes ==
    {pick_mode_for_npc(NPCS[npc_idx + 1], relationship, recent_action, user_input) :
        user_input \in UserInputs}

\* lines 308-322: a turn whose input selects mode, up to the context update
TurnOpen(mode) ==
    /\ pc = "prompt"
    /\ turn_count < MaxTurns
    /\ update_context(NPCS[npc_idx + 1].name, mode)
    /\ call' = [op |-> "update_context", role |-> NPCS[npc_idx + 1].name, mood |-> mode]

\* lines 330-333: llama_tokenize fails, the turn is abandoned
TurnTokenizeFail ==
    /\ pc = "prompt"
    /\ turn_count < MaxTurns
    /\ \E mode \in TurnModes : TurnOpen(mode)
    /\ pc' = "prompt"
    /\ UNCHANGED <<vocab, staticVars, logits, n_accel, gameVars, loopVars>>

\* lines 336-339: llama_decode of the prompt fails, the turn is abandoned
TurnPromptDecodeFail ==
    /\ pc = "prompt"
    /\ turn_count < MaxTurns
    /\ \E mode \in TurnModes : TurnOpen(mode)
    /\ pc' = "prompt"
    /\ UNCHANGED <<vocab, staticVars, logits, n_accel, gameVars, loopVars>>

\* lines 308-351: the prompt is decoded and the generation loop is entered
TurnBegin ==
    /\ pc = "prompt"
    /\ turn_count < MaxTurns
    /\ \E name \in TurnModes :
          /\ TurnOpen(name)
          /\ LET mode == get_mode_by_name(name)
             IN  /\ mode_name' = name
                 /\ min_tokens' = Max(MIN_RESPONSE_TOKENS, mode.min_tokens)
                 /\ max_tokens' = Min(DEFAULT_MAX_OUTPUT_TOKENS, mode.max_tokens)
    /\ logits' = decoded_logits
    /\ n_accel' = 0
    /\ token_counts' = [t \in Tokens |-> 0]
    /\ assistant_tokens' = 0
    /\ found_closing_quote' = FALSE
    /\ found_forbidden_speaker' = FALSE
    /\ i' = 0
    /\ pc' = "gen"
    /\ UNCHANGED <<vocab, staticVars, gameVars, candidates>>

(***************************************************************************)
(* main: one iteration of the generation loop (lines 351-413)              *)
(***************************************************************************)
\* line 355 with the two int arguments exchanged
accelerated_swapped == accelerate_logits(logits, max_tokens - i, i)

\* line 355: the buffer after zipf.accelerate_logits(logits, i, max_tokens - i)
accelerated == accelerate_logits(logits, i, max_tokens - i)

\* lines 358-360: candidates[token_id].logit = logits[token_id]
fill_candidates(buf) == [t \in Tokens |-> buf[t]]

\* lines 364-369: logits[token_id] *= penalty for every token already emitted
apply_penalties(buf) ==
    [t \in Tokens |->
        IF token_counts[t] > 0
        THEN Mul(buf[t], to_fixed(get_repetition_penalty(t, token_counts[t])))
        ELSE buf[t]]

\* the tokens llama_sampler_sample returns in the runs explored
Sampled(next_token) ==
    \/ next_token = PlainToken
    \/ /\ next_token = QuoteToken
       /\ i >= min_tokens \/ token_counts[QuoteToken] < MaxQuote
    \/ /\ next_token = LLAMA_TOKEN_NULL
       /\ i >= min_tokens \/ i - assistant_tokens < MaxEarlyEos

\* lines 351-372: up to the sampling of next_token
StepHead(next_token) ==
    /\ pc = "gen"
    /\ i < max_tokens
    /\ Sampled(next_token)
    /\ candidates' = fill_candidates(accelerated)
    /\ call' = [op |-> "accelerate_logits", context_length |-> i,
                min_tokens_remaining |-> max_tokens - i]
    /\ accelerate_frame
    /\ UNCHANGED <<vocab, gameVars, mode_name, min_tokens, max_tokens>>

\* no llama_decode follows: the buffer keeps what this iteration wrote into it
BufferKept ==
    /\ logits' = apply_penalties(accelerated)
    /\ n_accel' = n_accel + 1

\* lines 380-381
Emit(next_token) ==
    /\ assistant_tokens' = assistant_tokens + 1
    /\ token_counts' = [token_counts EXCEPT ![next_token] = @ + 1]

HasQuote(token) == Contains(token_get_text(token), <<"\"">>)

\* lines 374-377: end of sequence before min_tokens, the loop continues
GenEosContinue ==
    /\ StepHead(LLAMA_TOKEN_NULL)
    /\ i < min_tokens
    /\ BufferKept
    /\ i' = i + 1
    /\ UNCHANGED <<pc, token_counts, assistant_tokens, found_closing_quote,
                   found_forbidden_speaker>>

\* lines 374-375: end of sequence at or after min_tokens
GenEosBreak ==
    /\ StepHead(LLAMA_TOKEN_NULL)
    /\ i >= min_tokens
    /\ BufferKept
    /\ pc' = "output"
    /\ UNCHANGED <<i, token_counts, assistant_tokens, found_closing_quote,
                   found_forbidden_speaker>>

\* lines 390-393: a token with a quotation mark at or after min_tokens
GenQuoteBreak ==
    /\ \E next_token \in {PlainToken, QuoteToken} :
          /\ StepHead(next_token)
          /\ HasQuote(next_token)
          /\ Emit(next_token)
    /\ i >= min_tokens
    /\ found_closing_quote' = TRUE
    /\ BufferKept
    /\ pc' = "output"
    /\ UNCHANGED <<i, found_forbidden_speaker>>

\* the token does not end the loop at lines 390-393
PassesQuoteCheck(next_token) ==
    /\ ~(HasQuote(next_token) /\ i >= min_tokens)
    /\ found_closing_quote' = (found_closing_quote \/ HasQuote(next_token))

\* lines 396-402: the text so far holds a forbidden speaker cue
GenForbiddenBreak ==
    /\ \E next_token \in {PlainToken, QuoteToken} :
          /\ StepHead(next_token)
          /\ Emit(next_token)
          /\ PassesQuoteCheck(next_token)
    /\ found_forbidden_speaker' = TRUE
    /\ BufferKept
    /\ pc' = "output"
    /\ UNCHANGED i

\* lines 405-410: llama_decode of the new token fails
GenDecodeError ==
    /\ \E next_token \in {PlainToken, QuoteToken} :
          /\ StepHead(next_token)
          /\ Emit(next_token)
          /\ PassesQuoteCheck(next_token)
    /\ BufferKept
    /\ pc' = "output"
    /\ UNCHANGED <<i, found_forbidden_speaker>>

\* lines 405-413: the token is decoded and the loop goes on
GenAdvance ==
    /\ \E next_token \in {PlainToken, QuoteToken} :
          /\ StepHead(next_token)
          /\ Emit(next_token)
          /\ PassesQuoteCheck(next_token)
    /\ logits' = decoded_logits
    /\ n_accel' = 0
    /\ i' = i + 1
    /\ UNCHANGED <<pc, found_forbidden_speaker>>

\* line 351: the loop condition fails
GenLoopEnd ==
    /\ pc = "gen"
    /\ i >= max_tokens
    /\ pc' = "output"
    /\ UNCHANGED <<vocab, staticVars, contextVars, convVars, paramVars, logits, n_accel,
                   call, gameVars, loopVars>>

\* lines 415-453: the reply is printed and logged, the locals of the turn end
TurnFinish ==
    /\ pc = "output"
    /\ pc' = "prompt"
    /\ mode_name' = ""
    /\ i' = 0
    /\ min_tokens' = 0
    /\ max_tokens' = 0
    /\ assistant_tokens' = 0
    /\ found_closing_quote' = FALSE
    /\ found_forbidden_speaker' = FALSE
    /\ UNCHANGED <<vocab, staticVars, contextVars, convVars, paramVars, logits, n_accel,
                   call, gameVars, candidates, token_counts>>

Next ==
    \/ HostStartup
    \/ HostExit
    \/ HostEmptyInput
    \/ TurnTokenizeFail
    \/ TurnPromptDecodeFail
    \/ TurnBegin
    \/ GenEosContinue
    \/ GenEosBreak
    \/ GenQuoteBreak
    \/ GenForbiddenBreak
    \/ GenDecodeError
    \/ GenAdvance
    \/ GenLoopEnd
    \/ TurnFinish

Spec == Init /\ [][Next]_vars

(***************************************************************************)
(* pick_mode_for_npc applied to the game state and a line of input:        *)
(* SpecPick.                                                               *)
(***************************************************************************)
\* state.relationship as typed at startup ("stranger" when the line is empty)
PickRelationships == {"friend", "foe", "stranger", "rival"}

\* state.recent_action as typed at startup
PickActions == {<<>>, <<"g","r","e","e","t">>, <<"H","a","r","m","e","d">>, <<"a","c","k">>}

\* lines of user input
PickInputs ==
    UserInputs \cup
    {<<"K","I","L","L">>, <<"t","h","a","n","k"," ","y","o","u">>,
     <<"m","y"," ","q","u","e","e","n">>, <<"a","t","t">>,
     <<"d","o","n","'","t"," ","t","h","r","e","a","t","e","n">>}

PickInit ==
    /\ vocab \in HostVocabularies
    /\ EngineFresh
    /\ logits = [t \in Tokens |-> 0]
    /\ n_accel = 0
    /\ pc = "pick"
    /\ npc_idx \in 0..(Len(NPCS) - 1)
    /\ relationship \in PickRelationships
    /\ recent_action \in PickActions
    /\ LoopIdle
    /\ candidates = EmptyMap
    /\ token_counts = EmptyMap

\* line 308: std::string mode_name = pick_mode_for_npc(npc, state, user_input)
PickMode ==
    /\ pc = "pick"
    /\ \E user_input \in PickInputs :
          /\ mode_name' = pick_mode_for_npc(NPCS[npc_idx + 1], relationship,
                                            recent_action, user_input)
          /\ call' = [op |-> "pick_mode_for_npc", user_input |-> user_input]
    /\ UNCHANGED <<vocab, staticVars, contextVars, convVars, paramVars, logits, n_accel,
                   pc, gameVars, i, min_tokens, max_tokens, candidates, token_counts,
                   assistant_tokens, found_closing_quote, found_forbidden_speaker>>

PickNext == PickMode

SpecPick == PickInit /\ [][PickNext]_vars

(***************************************************************************)
(* Claims                                                                  *)
(***************************************************************************)
ScoreAt(r) == token_scores[r].second

TokenAt(r) == token_scores[r].first

DistinctScores ==
    \A a \in Tokens, b \in Tokens : a # b => vocab.score[a] # vocab.score[b]

\* C1: after build the rank order is sorted by descending score and tokens of
\* equal score are ranked by ascending TokenId (so a rebuild of the same
\* vocabulary gives every token the same rank).
C1_RankOrderTieBreak ==
    initialized =>
        \A r \in 1..Len(token_scores), q \in 1..Len(token_scores) :
            r < q => \/ ScoreAt(r) > ScoreAt(q)
                     \/ ScoreAt(r) = ScoreAt(q) /\ TokenAt(r) < TokenAt(q)

\* C2: after build over n tokens of pairwise distinct scores, COMMON holds the
\* min(500, floor(n/10)) top-ranked tokens and RARE holds n - floor(4n/5) tokens
\* (the bottom 20%).
C2_CategorySizes ==
    (initialized /\ DistinctScores) =>
        /\ common_tokens = {TokenAt(r) : r \in 1..Min(500, vocab.n \div 10)}
        /\ Cardinality(rare_tokens) = vocab.n - ((4 * vocab.n) \div 5)

\* C3: build on an empty vocabulary fails: the engine does not become
\* initialized.
C3_EmptyVocabularyRejected == vocab.n = 0 => ~initialized

\* C4: after k turn updates recentLengths holds the last min(k, 5) response
\* lengths (one appended per update, the oldest dropped beyond 5), k being
\* turnCount.
C4_RecentLengthsFilled == Len(recent_lengths) = Min(turn_count, 5)

C5_Mean == IF recent_lengths' = <<>> THEN 0
           ELSE (accumulate(recent_lengths') * Scale) \div Len(recent_lengths')

C5_Rule ==
    LET scaled == IF C5_Mean < 20 * Scale THEN (complexity_factor * 9) \div 10
                  ELSE IF C5_Mean > 50 * Scale THEN (complexity_factor * 11) \div 10
                  ELSE complexity_factor
    IN  complexity_factor' = Max(500, Min(2000, scaled))

\* C5: complexityFactor starts at 1.0; each turn update multiplies it by 0.9 if
\* the mean of recentLengths is below 20, by 1.1 if above 50, else leaves it,
\* then clamps to [0.5, 2.0]; with short responses it is above 0.5 after 6
\* updates, exactly 0.5 at the 7th and at every later one; it never leaves
\* [0.5, 2.0].
C5_ComplexityFactor ==
    /\ [](/\ 500 <= complexity_factor /\ complexity_factor <= 2000
          /\ turn_count = 0 => complexity_factor = Scale
          /\ (turn_count > 0 /\ turn_count < 7) =>
                (complexity_factor > 500 /\ complexity_factor < Scale)
          /\ turn_count >= 7 => complexity_factor = 500)
    /\ [][turn_count' # turn_count => C5_Rule]_vars

C5_Witness == turn_count >= 8 /\ complexity_factor = 500 /\ call.op = "update_context"

\* C6: a turn abandoned before any response is generated (tokenization or
\* prompt-decode failure: main returns to the prompt without entering the
\* generation loop) does not advance turnCount or change complexityFactor.
C6_AbandonedTurnLeavesTracker ==
    [][(pc = "prompt" /\ pc' = "prompt") =>
          (turn_count' = turn_count /\ complexity_factor' = complexity_factor)]_vars

\* C7: accelerate is applied exactly once to the logit buffer of a generation
\* step: no buffer is biased a second time.
C7_AcceleratedOnce == n_accel <= 1

\* C8: in a generation step the candidate array handed to the sampler carries,
\* for every token already emitted in the response, the accelerated score
\* multiplied by that token's repetition penalty.
C8_CandidatesPenalized ==
    [][(pc = "gen" /\ i < max_tokens) =>
          \A t \in Tokens :
              token_counts[t] > 0 =>
                  candidates'[t] =
                      Mul(accelerated[t],
                          to_fixed(get_repetition_penalty(t, token_counts[t])))]_vars

C9_Matches(t, keywords) ==
    \E k \in 1..Len(keywords) : Contains(to_lower(token_get_text(t)), keywords[k])

C9_GuardKeywords == <<
    <<"g","u","a","r","d">>, <<"w","a","t","c","h">>, <<"p","r","o","t","e","c","t">>,
    <<"d","u","t","y">>, <<"p","a","t","r","o","l">>, <<"s","e","c","u","r","e">>,
    <<"d","e","f","e","n","d">> >>

\* C9: after refresh(role, mood) the role-matched set is exactly the set of
\* tokens whose lower-cased text contains a keyword of the role, likewise the
\* mood-matched set, whatever the sets held before; for role "guard" the
\* keywords are guard, watch, protect, duty, patrol, secure, defend; an
\* unrecognised label gives an empty set.
C9_RefreshReplacesSets ==
    call.op = "update_context" =>
        /\ current_role_tokens =
             {t \in Tokens : C9_Matches(t, get_role_keywords(call.role))}
        /\ current_mood_tokens =
             {t \in Tokens : C9_Matches(t, get_mood_keywords(call.mood))}
        /\ call.role = "guard" =>
             current_role_tokens = {t \in Tokens : C9_Matches(t, C9_GuardKeywords)}
        /\ call.role \in {"unknown", "Guard"} => current_role_tokens = {}
        /\ call.mood = "unknown" => current_mood_tokens = {}

C9_Witness ==
    /\ call.op = "update_context"
    /\ call.role = "unknown"
    /\ call.mood = "unknown"
    /\ turn_count >= 2
    /\ current_role_tokens = {}
    /\ current_mood_tokens = {}

\* C10: while a turn's generation loop runs (accelerate and penalty are called
\* in it), turnCount, recentLengths, turnFrequencies, the three adaptive
\* parameters and the role and mood token sets do not change.
C10_ConstantDuringGeneration ==
    [][pc = "gen" =>
          UNCHANGED <<turn_count, recent_lengths, turn_frequencies, complexity_factor,
                      engagement_modifier, pattern_strength, current_role_tokens,
                      current_mood_tokens>>]_vars

C10_Witness ==
    /\ pc = "gen"
    /\ i >= 2
    /\ call.op = "accelerate_logits"
    /\ \E t \in Tokens : token_counts[t] > 0
    /\ current_mood_tokens # {}
    /\ turn_count >= 1


\* the buffer of an accelerate_logits call before its dialogue-flow branch,
\* with the pattern reinforcement that follows the branch
C11_Unshaped(t, step) ==
    logits[t] + Mul(base_logit_bias[t], complexity_factor)
    + (IF t \in current_role_tokens THEN role_boost(step) ELSE 0)
    + (IF t \in current_mood_tokens THEN mood_boost(step) ELSE 0)
    + (IF t \in DOMAIN turn_frequencies /\ turn_frequencies[t] > 100
       THEN Mul(200, pattern_strength) ELSE 0)

\* C11: in each accelerate call exactly one dialogue-flow branch is taken,
\* chosen by completionRatio = 1 - tokensRemainingBudget/200: below 0.6, 2.0 is
\* subtracted from every token flagged both DIALOGUE and PUNCTUATION and no
\* DIALOGUE token is boosted; otherwise dialogueBoost * completionRatio is added
\* to every DIALOGUE token and none is suppressed.
C11_OneDialogueBranch ==
    [][(initialized /\ call'.op = "accelerate_logits" /\ n_accel' = n_accel + 1) =>
          LET completionRatio == Scale - (call'.min_tokens_remaining * Scale) \div 200
              dialogueBoost == (400 * pattern_strength) \div Scale
              shift(t) == logits'[t] - C11_Unshaped(t, call'.context_length)
          IN  \A t \in Tokens :
                 shift(t) =
                    IF completionRatio < 600
                    THEN (IF t \in dialogue_tokens /\ t \in punctuation
                          THEN 0 - 2 * Scale ELSE 0)
                    ELSE (IF t \in dialogue_tokens
                          THEN (dialogueBoost * completionRatio) \div Scale ELSE 0)]_vars

\* a buffer suppressed by one call (budget 81) and boosted by the next (budget 80)
C11_Witness ==
    /\ initialized
    /\ vocab.n > 0
    /\ call.op = "accelerate_logits"
    /\ call.min_tokens_remaining = 80
    /\ n_accel = 2
    /\ \E t \in dialogue_tokens :
          /\ t \in punctuation
          /\ logits[t] < decoded_logits[t] - Scale

\* a second accelerate_logits call on a buffer biased once since it was decoded,
\* with the step index and budget of the first call; update_context refills the
\* buffer, so the context sets and adaptive parameters are those of the first call
C12_SecondCall ==
    /\ initialized
    /\ n_accel = 1
    /\ n_accel' = 2
    /\ call.op = "accelerate_logits"
    /\ call'.op = "accelerate_logits"
    /\ call'.context_length = call.context_length
    /\ call'.min_tokens_remaining = call.min_tokens_remaining

C12_Abs(x) == IF x < 0 THEN 0 - x ELSE x

C12_ShiftOnce(t) == logits[t] - decoded_logits[t]

C12_ShiftTwice(t) == logits'[t] - decoded_logits[t]

\* C12 as stated: accelerate is not idempotent: applied twice in succession to
\* the same logits with unchanged step index, budget, context sets and adaptive
\* parameters, for every token the shift after two calls is twice the shift
\* after one, and strictly larger in magnitude.
C12_TwiceStrictlyLarger ==
    [][C12_SecondCall =>
          \A t \in Tokens :
              /\ C12_ShiftTwice(t) = 2 * C12_ShiftOnce(t)
              /\ C12_Abs(C12_ShiftTwice(t)) > C12_Abs(C12_ShiftOnce(t))]_vars

\* C12 amended: for every token the shift after two calls is twice the shift
\* after one; it is strictly larger in magnitude for the tokens the first call
\* moved, and zero for those it did not move (the top-ranked token, whose base
\* bias is log(1) = 0, when no boost or suppression applies to it).
C12_TwiceDoubles ==
    [][C12_SecondCall =>
          \A t \in Tokens :
              /\ C12_ShiftTwice(t) = 2 * C12_ShiftOnce(t)
              /\ C12_ShiftOnce(t) # 0 =>
                    C12_Abs(C12_ShiftTwice(t)) > C12_Abs(C12_ShiftOnce(t))
              /\ C12_ShiftOnce(t) = 0 => logits'[t] = decoded_logits[t]]_vars

C12_Witness ==
    /\ initialized
    /\ n_accel = 2
    /\ call.op = "accelerate_logits"
    /\ logits =
         accelerate_logits(
            accelerate_logits(decoded_logits, call.context_length,
                              call.min_tokens_remaining),
            call.context_length, call.min_tokens_remaining)
    /\ \E t \in Tokens : logits[t] # decoded_logits[t]
    /\ \E t \in Tokens : base_logit_bias[t] = 0 /\ logits[t] = decoded_logits[t]

\* 0.9^n for a whole exponent n
C13_WholePow(n) == float_round(IntPow09(n))

C13_Le(a, b) == ~float_lt(b, a)

\* the penalty of a query is in (0, 1], is 1.0 at count 0, is above the penalty
\* at the next count, and lies between 0.9^ceil(x) and 0.9^floor(x) for
\* x = 0.7 * count (COMMON token) or x = 1.3 * count (any other token)
C13_PenaltyAsStated ==
    LET tenths == (IF call.token \in common_tokens THEN 7 ELSE 13) * call.count
    IN  /\ float_lt(float_zero, call.ret)
        /\ C13_Le(call.ret, float_one)
        /\ call.count = 0 => call.ret = float_one
        /\ float_lt(get_repetition_penalty(call.token, call.count + 1), call.ret)
        /\ C13_Le(C13_WholePow((tenths + 9) \div 10), call.ret)
        /\ C13_Le(call.ret, C13_WholePow(tenths \div 10))

\* C13 as stated: penalty(tokenId, occurrenceCount) is in (0, 1] for every token
\* and every occurrenceCount >= 0: it is 1.0 at occurrenceCount 0 and strictly
\* decreasing in occurrenceCount, with exponent 0.7*count for COMMON tokens and
\* 1.3*count for every other token.
C13_PenaltyEveryCount ==
    call.op = "get_repetition_penalty" => C13_PenaltyAsStated

\* C13 amended: the same for every occurrenceCount from 0 to 200, the largest
\* count a response of at most 200 tokens can hold; for counts in the hundreds
\* the float result is 0.
C13_PenaltyHostCounts ==
    (call.op = "get_repetition_penalty" /\ call.count <= 200) => C13_PenaltyAsStated

C13_Witness ==
    /\ initialized
    /\ call.op = "get_repetition_penalty"
    /\ call.count = 200
    /\ call.token \notin common_tokens
    /\ common_tokens # {}
    /\ float_lt(float_zero, call.ret)
    /\ float_lt(call.ret, get_repetition_penalty(CHOOSE t \in common_tokens : TRUE, 200))

C14_Flagged(t, flag) == t \in DOMAIN token_flags /\ flag \in token_flags[t]

C14_Matched(t) == t \in current_role_tokens \/ t \in current_mood_tokens

\* C14: isAppropriate(tokenId) is a pure query whose result is: false for every
\* RARE token even when it is role- or mood-matched; otherwise true if the token
\* is role- or mood-matched; otherwise true if it is COMMON; otherwise false.
\* It changes no engine state.
C14_AppropriateQuery ==
    /\ [](call.op = "is_contextually_appropriate" =>
            /\ C14_Flagged(call.token, "IS_RARE") => call.ret = FALSE
            /\ (~C14_Flagged(call.token, "IS_RARE") /\ C14_Matched(call.token)) =>
                  call.ret = TRUE
            /\ (~C14_Flagged(call.token, "IS_RARE") /\ ~C14_Matched(call.token)) =>
                  call.ret = C14_Flagged(call.token, "IS_COMMON"))
    /\ [][call'.op = "is_contextually_appropriate" =>
            UNCHANGED <<staticVars, contextVars, convVars, paramVars, logits>>]_vars

\* a RARE token that is role-matched is found inappropriate
C14_Witness ==
    /\ initialized
    /\ call.op = "is_contextually_appropriate"
    /\ C14_Flagged(call.token, "IS_RARE")
    /\ call.token \in current_role_tokens
    /\ call.ret = FALSE

C15_Mode == get_mode_by_name(mode_name)

\* the bounds of the loop: the caps of the turn's mode, at most max_tokens
\* iterations (every step that stays in the loop is one more iteration) and at
\* most max_tokens tokens emitted
C15_Bounded ==
    /\ [](pc = "gen" =>
            /\ max_tokens = Min(300, C15_Mode.max_tokens)
            /\ min_tokens = Max(8, C15_Mode.min_tokens)
            /\ i <= max_tokens
            /\ assistant_tokens <= max_tokens)
    /\ [][(pc = "gen" /\ pc' = "gen") => i' = i + 1]_vars
    /\ [][(pc = "gen" /\ pc' = "output") => assistant_tokens' <= max_tokens]_vars

\* a stop on an end-of-sequence token or on a token with a closing quote
C15_StopsOnEosOrQuote == GenEosBreak \/ GenQuoteBreak

\* C15: the generation loop of a turn always terminates after at most
\* max_tokens = min(300, mode.max_tokens) iterations and emits at most max_tokens
\* tokens; it stops on an end-of-sequence token or on a token containing a
\* closing quote only when the step index is at least
\* min_tokens = max(8, mode.min_tokens), and whenever it stops for one of those
\* two reasons the response contains at least min_tokens tokens.
C15_LoopBoundsAndMinimum ==
    /\ C15_Bounded
    /\ [][C15_StopsOnEosOrQuote =>
            (i >= min_tokens /\ assistant_tokens' >= min_tokens)]_vars

C16_ThreatWords ==
    {<<"t","h","r","e","a","t","e","n">>, <<"k","i","l","l">>, <<"h","a","r","m">>,
     <<"a","t","t","a","c","k">>}

C16_HasThreat(text) == \E word \in C16_ThreatWords : Contains(to_lower(text), word)

C16_AllowedModes ==
    {NPCS[npc_idx + 1].allowed_modes[k] : k \in 1..Len(NPCS[npc_idx + 1].allowed_modes)}

\* C16: pick_mode_for_npc always returns a mode name that is a member of the
\* NPC's allowed_modes, for every relationship, recent action and user input;
\* and when the input or recent action contains a threat word (threaten, kill,
\* harm, attack) and "rude" is allowed, the result is "rude" regardless of
\* relationship.
C16_PickedModeAllowed ==
    call.op = "pick_mode_for_npc" =>
        /\ mode_name \in C16_AllowedModes
        /\ ((C16_HasThreat(call.user_input) \/ C16_HasThreat(recent_action))
              /\ "rude" \in C16_AllowedModes) => mode_name = "rude"

\* a threat in the recent action turns a friend's NPC rude
C16_Witness ==
    /\ call.op = "pick_mode_for_npc"
    /\ relationship = "friend"
    /\ "friendly" \in C16_AllowedModes
    /\ C16_HasThreat(recent_action)
    /\ ~C16_HasThreat(call.user_input)
    /\ mode_name = "rude"

\* the dialogue-flow term of the accelerate_logits call of step i
C17_Flow(t) ==
    LET ratio == completion_ratio(max_tokens - i)
        zero == [u \in Tokens |-> 0]
        flowed == IF ratio < 600 THEN suppress_dialogue_enders(zero)
                  ELSE boost_dialogue_enders(zero, Mul(dialogue_boost, ratio))
    IN  flowed[t]

\* the score of step i with the base bias, the mood boost and the dialogue-flow
\* term, and no role boost
C17_ScoreWithoutRoleBoost(t) ==
    logits[t] + Mul(base_logit_bias[t], complexity_factor)
    + (IF t \in current_mood_tokens THEN mood_boost(i) ELSE 0)
    + C17_Flow(t)

\* C17: in the host program the role label passed to the per-turn context
\* refresh is the NPC's name (Krackle, Mira, Feylan), which is not a key of the
\* role keyword table, so in every turn of every conversation the role-matched
\* token set is empty and no token ever receives the role boost; only the mood
\* set can be non-empty.
C17_RoleNeverMatched ==
    /\ [](/\ current_role_tokens = {}
          /\ call.op = "update_context" =>
                /\ call.role = NPCS[npc_idx + 1].name
                /\ call.role \in {"Krackle", "Mira", "Feylan"}
                /\ get_role_keywords(call.role) = <<>>)
    /\ [][(pc = "gen" /\ i < max_tokens) =>
            \A t \in Tokens : candidates'[t] = C17_ScoreWithoutRoleBoost(t)]_vars

\* a step of a turn whose mood set is not empty, in a vocabulary holding role
\* keywords of the guard ("watch") and the tavernkeeper ("ale")
C17_Witness ==
    /\ pc = "gen"
    /\ i >= 1
    /\ call.op = "accelerate_logits"
    /\ current_role_tokens = {}
    /\ current_mood_tokens # {}
    /\ \E t \in Tokens : candidates[t] # decoded_logits[t]
    /\ \E t \in Tokens : token_get_text(t) = <<"w","a","t","c","h">>
    /\ \E t \in Tokens : token_get_text(t) = <<"a","l","e">>

\* what the dialogue-flow branch of step i adds to the score of token t
C18_FlowShift(t) ==
    candidates'[t]
    - (logits[t] + Mul(base_logit_bias[t], complexity_factor)
       + (IF t \in current_role_tokens THEN role_boost(i) ELSE 0)
       + (IF t \in current_mood_tokens THEN mood_boost(i) ELSE 0))

C18_Suppressed == \A t \in dialogue_tokens : C18_FlowShift(t) = 0 - 2 * Scale

C18_Boosted == \A t \in dialogue_tokens : C18_FlowShift(t) > 0

\* the latest accelerate_logits call was given a budget that selects the boost
C18_LastCallBoosted ==
    /\ call.op = "accelerate_logits"
    /\ 5 * call.min_tokens_remaining <= 2 * 200

\* C18: because completionRatio is computed against the fixed constant 200
\* while the host passes max_tokens - i as the remaining budget, at step i of a
\* turn capped at M tokens the closing-dialogue tokens are suppressed exactly
\* while M - i > 80 and boosted from then on; hence in a turn whose mode caps
\* the response at 80 tokens or fewer (rude, stoic) suppression never happens at
\* any step, and once a turn has switched from suppression to boosting it never
\* switches back.
C18_SuppressedWhileBudgetAbove80 ==
    /\ [](\A k \in 1..Len(ALL_PERSONALITY_MODES) :
             LET cap == Min(DEFAULT_MAX_OUTPUT_TOKENS, ALL_PERSONALITY_MODES[k].max_tokens)
             IN  cap <= 80 => \A step \in 0..(cap - 1) : completion_ratio(cap - step) >= 600)
    /\ [][(pc = "gen" /\ i < max_tokens) =>
            /\ call'.min_tokens_remaining = max_tokens - i
            /\ max_tokens - i > 80 => (C18_Suppressed /\ ~C18_LastCallBoosted')
            /\ max_tokens - i <= 80 => (C18_Boosted /\ C18_LastCallBoosted')
            /\ get_mode_by_name(mode_name).max_tokens <= 80 => C18_Boosted]_vars
    /\ [][(pc = "gen" /\ pc' = "gen" /\ i > 0 /\ C18_LastCallBoosted) =>
            C18_LastCallBoosted']_vars

\* a friendly turn (cap 150) just after the step with budget 80, the first that
\* boosts the closing quote
C18_Witness ==
    /\ pc = "gen"
    /\ mode_name = "friendly"
    /\ max_tokens - i = 79
    /\ call.op = "accelerate_logits"
    /\ call.min_tokens_remaining = 80
    /\ QuoteToken \in dialogue_tokens
    /\ candidates[QuoteToken] > decoded_logits[QuoteToken] - Scale

==========================================================================
